---- MODULE Spec2Model ----
(***************************************************************************)
(* Model of justjit's decoration and call dispatch                         *)
(* (src/src/justjit/__init__.py): the eligibility analysis, the creation   *)
(* of the wrapper closure, and the wrapper's call-time steps, one action   *)
(* per source statement that another thread can interleave with.  The      *)
(* native Backend (the JIT class of the C++ extension) is the environment: *)
(* each of its entry points answers nondeterministically.                  *)
(***************************************************************************)
EXTENDS Integers, Sequences, FiniteSets, TLC

(* ------------------------------ bounds -------------------------------- *)
\* wrapper/function calls begun in one behaviour
MaxCalls == 3
\* call arguments are 0..MaxArg
MaxArg == 1
\* instruction streams handed to the analysis have at most MaxLen instructions
MaxLen == 3

(* ------------------------- program constants -------------------------- *)
_CO_GENERATOR == 32
_CO_COROUTINE == 128
_CO_ASYNC_GENERATOR == 512

_GENERATOR_OPCODES ==
    {"YIELD_VALUE", "RETURN_GENERATOR", "GEN_START", "SEND",
     "END_ASYNC_FOR", "GET_AWAITABLE", "GET_AITER", "GET_ANEXT",
     "GET_YIELD_FROM_ITER", "ASYNC_GEN_WRAP"}

_EXCEPTION_OPCODES ==
    {"PUSH_EXC_INFO", "POP_EXCEPT", "CHECK_EXC_MATCH", "RAISE_VARARGS",
     "RERAISE", "CLEANUP_THROW", "SETUP_FINALLY", "POP_BLOCK",
     "BEFORE_WITH", "WITH_EXCEPT_START"}

\* Python's None as the value of compiled_ptr; entry points are 1, 2, ...
None == 0

(* ----------------------- the host's functions ------------------------- *)
\* One dis.Instruction.  arg is absent (hasarg = FALSE) or an integer;
\* argval is an integer (argint = TRUE) or some other object.
Ins(opname, hasarg, arg, argint, argval, offset) ==
    [opname |-> opname, hasarg |-> hasarg, arg |-> arg,
     argint |-> argint, argval |-> argval, offset |-> offset]

\* The functions handed to the decorator.  kind is what the body does:
\*   "pure"   def inc(a): return a + 1
\*   "global" def bump(a): global g; g += 1; return (g + c) // a
\*            (c a closure cell; a = 0 raises ZeroDivisionError)
\* The other entries are a generator, a coroutine, an async generator, a
\* code object holding a yield opcode with its flag cleared, and a function
\* with try/except; calling them is modelled as "pure".
Funcs ==
    [inc |->
       [name |-> "inc", co_flags |-> 3, kind |-> "pure",
        co_consts |-> << "None", "1" >>, co_names |-> << >>,
        globals |-> "module", closure |-> << >>,
        co_argcount |-> 1, co_nlocals |-> 1, ncellvars |-> 0, nfreevars |-> 0,
        code |-> << Ins("RESUME", TRUE, 0, TRUE, 0, 0),
                    Ins("LOAD_FAST", TRUE, 0, FALSE, 0, 2),
                    Ins("LOAD_CONST", TRUE, 1, TRUE, 1, 4),
                    Ins("BINARY_OP", TRUE, 0, TRUE, 0, 6),
                    Ins("CACHE", TRUE, 0, TRUE, 0, 8),
                    Ins("RETURN_VALUE", FALSE, 0, FALSE, 0, 10) >>],
     bump |->
       [name |-> "bump", co_flags |-> 19, kind |-> "global",
        co_consts |-> << "None", "1" >>, co_names |-> << "g" >>,
        globals |-> "module", closure |-> << "c" >>,
        co_argcount |-> 1, co_nlocals |-> 1, ncellvars |-> 0, nfreevars |-> 1,
        code |-> << Ins("COPY_FREE_VARS", TRUE, 1, TRUE, 1, 0),
                    Ins("RESUME", TRUE, 0, TRUE, 0, 2),
                    Ins("LOAD_GLOBAL", TRUE, 0, FALSE, 0, 4),
                    Ins("LOAD_CONST", TRUE, 1, TRUE, 1, 14),
                    Ins("BINARY_OP", TRUE, 13, TRUE, 13, 16),
                    Ins("STORE_GLOBAL", TRUE, 0, FALSE, 0, 20),
                    Ins("LOAD_GLOBAL", TRUE, 0, FALSE, 0, 22),
                    Ins("LOAD_DEREF", TRUE, 1, FALSE, 0, 32),
                    Ins("BINARY_OP", TRUE, 0, TRUE, 0, 34),
                    Ins("LOAD_FAST", TRUE, 0, FALSE, 0, 38),
                    Ins("BINARY_OP", TRUE, 2, TRUE, 2, 40),
                    Ins("RETURN_VALUE", FALSE, 0, FALSE, 0, 44) >>],
     gen |->
       [name |-> "gen", co_flags |-> 35, kind |-> "pure",
        co_consts |-> << "None" >>, co_names |-> << >>,
        globals |-> "module", closure |-> << >>,
        co_argcount |-> 1, co_nlocals |-> 1, ncellvars |-> 0, nfreevars |-> 0,
        code |-> << Ins("RETURN_GENERATOR", FALSE, 0, FALSE, 0, 0),
                    Ins("POP_TOP", FALSE, 0, FALSE, 0, 2),
                    Ins("RESUME", TRUE, 0, TRUE, 0, 4),
                    Ins("LOAD_FAST", TRUE, 0, FALSE, 0, 6),
                    Ins("YIELD_VALUE", TRUE, 1, TRUE, 1, 8),
                    Ins("RETURN_VALUE", FALSE, 0, FALSE, 0, 10) >>],
     coro |->
       [name |-> "coro", co_flags |-> 131, kind |-> "pure",
        co_consts |-> << "None" >>, co_names |-> << >>,
        globals |-> "module", closure |-> << >>,
        co_argcount |-> 1, co_nlocals |-> 1, ncellvars |-> 0, nfreevars |-> 0,
        code |-> << Ins("RESUME", TRUE, 0, TRUE, 0, 0),
                    Ins("LOAD_FAST", TRUE, 0, FALSE, 0, 2),
                    Ins("RETURN_VALUE", FALSE, 0, FALSE, 0, 4) >>],
     agen |->
       [name |-> "agen", co_flags |-> 515, kind |-> "pure",
        co_consts |-> << "None" >>, co_names |-> << >>,
        globals |-> "module", closure |-> << >>,
        co_argcount |-> 1, co_nlocals |-> 1, ncellvars |-> 0, nfreevars |-> 0,
        code |-> << Ins("RESUME", TRUE, 0, TRUE, 0, 0),
                    Ins("LOAD_FAST", TRUE, 0, FALSE, 0, 2),
                    Ins("RETURN_VALUE", FALSE, 0, FALSE, 0, 4) >>],
     yieldop |->
       [name |-> "yieldop", co_flags |-> 3, kind |-> "pure",
        co_consts |-> << "None" >>, co_names |-> << >>,
        globals |-> "module", closure |-> << >>,
        co_argcount |-> 1, co_nlocals |-> 1, ncellvars |-> 0, nfreevars |-> 0,
        code |-> << Ins("RESUME", TRUE, 0, TRUE, 0, 0),
                    Ins("LOAD_FAST", TRUE, 0, FALSE, 0, 2),
                    Ins("GET_AWAITABLE", TRUE, 0, TRUE, 0, 4),
                    Ins("RAISE_VARARGS", TRUE, 1, TRUE, 1, 6),
                    Ins("RETURN_VALUE", FALSE, 0, FALSE, 0, 8) >>],
     tryexc |->
       [name |-> "tryexc", co_flags |-> 3, kind |-> "pure",
        co_consts |-> << "None" >>, co_names |-> << >>,
        globals |-> "module", closure |-> << >>,
        co_argcount |-> 1, co_nlocals |-> 1, ncellvars |-> 0, nfreevars |-> 0,
        code |-> << Ins("RESUME", TRUE, 0, TRUE, 0, 0),
                    Ins("NOP", FALSE, 0, FALSE, 0, 2),
                    Ins("LOAD_FAST", TRUE, 0, FALSE, 0, 4),
                    Ins("RETURN_VALUE", FALSE, 0, FALSE, 0, 6),
                    Ins("PUSH_EXC_INFO", FALSE, 0, FALSE, 0, 8),
                    Ins("POP_TOP", FALSE, 0, FALSE, 0, 10),
                    Ins("POP_EXCEPT", FALSE, 0, FALSE, 0, 12),
                    Ins("SEND", TRUE, 2, TRUE, 18, 14),
                    Ins("RERAISE", TRUE, 1, TRUE, 1, 16) >>]]

FuncIds == DOMAIN Funcs

\* Decorated definitions of the program, and the host's threads.
Wrappers == {"w1", "w2"}
Threads == {"t1", "t2"}
MainThread == "t1"
\* The callables get_callable / get_int_callable can hand out.
EntryPoints == {1, 2}
Args == 0 .. MaxArg
Modes == {"auto", "object", "int"}
OptLevels == {0, 3}

VARIABLES
    defs,     \* the program: per decorated definition, the bodies it may
              \* have and the decorator arguments it may be given
    overlap,  \* whether the host calls from several threads at once
    bound,    \* per definition: what its public name is bound to
    clo,      \* per wrapper: the closure variables of `wrapper`
    jit,      \* per wrapper: its JIT instance, as a recording test double
    warned,   \* per definition: warnings.warn calls made by decoration
    ns,       \* namespaces (dict objects) by identity: the value of g
    cells,    \* closure cell objects by identity: cell_contents
    frame,    \* per thread: the wrapper call in progress, or the last one
    hist,     \* per wrapper: history of cache checks and assignments
    ncalls,   \* calls begun
    subject   \* a code object put through the analysis and the extraction

vars == << defs, overlap, bound, clo, jit, warned, ns, cells, frame, hist, ncalls,
           subject >>

(* --------------------------- pure helpers ----------------------------- *)
RECURSIVE BitAnd(_, _)
BitAnd(x, y) ==
    IF x = 0 \/ y = 0 THEN 0
    ELSE (IF x % 2 = 1 /\ y % 2 = 1 THEN 1 ELSE 0) + 2 * BitAnd(x \div 2, y \div 2)

RECURSIVE BitOr(_, _)
BitOr(x, y) ==
    IF x = 0 THEN y
    ELSE IF y = 0 THEN x
    ELSE (IF x % 2 = 1 \/ y % 2 = 1 THEN 1 ELSE 0) + 2 * BitOr(x \div 2, y \div 2)

\* flags & (_CO_GENERATOR | _CO_COROUTINE | _CO_ASYNC_GENERATOR), as a bool
HasGeneratorFlags(flags) ==
    BitAnd(flags, BitOr(_CO_GENERATOR, BitOr(_CO_COROUTINE, _CO_ASYNC_GENERATOR))) # 0

\* The flag test with _CO_COROUTINE left out of the mask.
_is_generator_or_coroutine_nocoro(f) ==
    BitAnd(Funcs[f].co_flags, BitOr(_CO_GENERATOR, _CO_ASYNC_GENERATOR)) # 0

\* _is_generator_or_coroutine(func), on func.__code__.co_flags
_is_generator_or_coroutine(f) == HasGeneratorFlags(Funcs[f].co_flags)

\* The scan of dis.get_instructions(func): the reason of the first
\* instruction in either opcode set, "none" when the loop runs out.
\* A scan that looks for a generator opcode anywhere before it looks for an
\* exception opcode.
ScanOpcodes_setwise(code, i) ==
    IF \E k \in i .. Len(code) : code[k].opname \in _GENERATOR_OPCODES
    THEN "generator"
    ELSE IF \E k \in i .. Len(code) : code[k].opname \in _EXCEPTION_OPCODES
    THEN "exception"
    ELSE "none"

RECURSIVE ScanOpcodes(_, _)
ScanOpcodes(code, i) ==
    IF i > Len(code) THEN "none"
    ELSE IF code[i].opname \in _GENERATOR_OPCODES THEN "generator"
    ELSE IF code[i].opname \in _EXCEPTION_OPCODES THEN "exception"
    ELSE ScanOpcodes(code, i + 1)

_has_unsupported_opcodes(f) == ScanOpcodes(Funcs[f].code, 1)

\* How many instructions that loop looks at before it returns.
RECURSIVE ScanSteps(_, _)
ScanSteps(code, i) ==
    IF i > Len(code) THEN 0
    ELSE IF code[i].opname \in _GENERATOR_OPCODES \cup _EXCEPTION_OPCODES THEN 1
    ELSE 1 + ScanSteps(code, i + 1)

\* The jump opcodes named in the elif of _extract_bytecode.
JumpOpnames ==
    {"POP_JUMP_IF_FALSE", "POP_JUMP_IF_TRUE", "JUMP_FORWARD", "JUMP_BACKWARD"}

\* An extraction that hands on argval whatever its type.
ArgvalOf_raw(ins) == ins.argval

\* argval = 0; if isinstance(instr.argval, int): argval = instr.argval;
\* elif a jump opcode: instr.argval if isinstance(instr.argval, int) else 0
ArgvalOf(ins) ==
    IF ins.argint THEN ins.argval
    ELSE IF ins.opname \in JumpOpnames
    THEN (IF ins.argint THEN ins.argval ELSE 0)
    ELSE 0

\* _extract_bytecode: CACHE dropped; arg or 0; argval when it is an integer
\* (an opcode is written by its name instead of its number).
RECURSIVE ExtractFrom(_, _)
ExtractFrom(code, i) ==
    IF i > Len(code) THEN << >>
    ELSE IF code[i].opname = "CACHE" THEN ExtractFrom(code, i + 1)
    ELSE << [opcode |-> code[i].opname,
             arg |-> IF code[i].hasarg THEN code[i].arg ELSE 0,
             argval |-> ArgvalOf(code[i]),
             offset |-> code[i].offset] >> \o ExtractFrom(code, i + 1)

_extract_bytecode(f) == ExtractFrom(Funcs[f].code, 1)

\* A copy of the dict taken when the module was loaded.
_extract_globals_snapshot(f) == "snapshot"

\* list(func.__code__.co_consts); a constant is written by its repr
_extract_constants(f) == Funcs[f].co_consts

\* list(func.__code__.co_names)
_extract_names(f) == Funcs[f].co_names

\* func.__globals__ itself: the identity of the dict, not its contents

_extract_globals(f) == Funcs[f].globals

\* list(func.__closure__): a new list of the same cell objects
_extract_closure(f) == Funcs[f].closure

\* Integer mode also for mode='auto'.
use_int_mode_of_auto(mode) == mode # "object"

\* use_int_mode = (mode == 'int')
use_int_mode_of(mode) == mode = "int"

(* ------------------- what the function bodies do ---------------------- *)
\* One run of the body of function kind `kind` with argument a, reading and
\* writing g through namespace G and reading the closure cells cl:
\* the namespaces afterwards, whether it raised, and the value returned.
RunBody(kind, a, G, cl, nsv, cellsv) ==
    IF kind = "global"
    THEN LET n2 == [nsv EXCEPT ![G] = @ + 1]
             c == IF Len(cl) > 0 THEN cellsv[cl[1]] ELSE 0
         IN  [ns |-> n2, raised |-> (a = 0),
              val |-> IF a = 0 THEN 0 ELSE (n2[G] + c) \div a]
    ELSE [ns |-> nsv, raised |-> FALSE, val |-> a + 1]

\* func(*args): the original, through its own __globals__ and __closure__
CallOriginal(f, a, nsv, cellsv) ==
    RunBody(Funcs[f].kind, a, Funcs[f].globals, Funcs[f].closure, nsv, cellsv)

(* ------------------------------ state --------------------------------- *)
NoUnit == [mode |-> "none"]

NoFrame ==
    [pc |-> "idle", w |-> "w1", a |-> 0, out |-> "none", val |-> 0,
     ref |-> [raised |-> FALSE, val |-> 0, g |-> 0],
     nCompile |-> 0, nGet |-> 0, nEntry |-> 0, nOrig |-> 0,
     success |-> "unset", fault |-> "none", sawNone |-> FALSE,
     absent |-> FALSE]

\* No code object is under analysis.
NoSubject ==
    [phase |-> "none", co_flags |-> 0, code |-> << >>,
     reason |-> "none", scanned |-> 0, instructions |-> << >>, again |-> << >>]

\* A decorated definition whose body is one of funcs, decorated with any
\* of the given mode, lazy and opt_level arguments.
Definition(funcs, modes, lazy, opt_levels) ==
    [funcs |-> funcs, modes |-> modes, lazy |-> lazy, opt_levels |-> opt_levels]

InitWith(ds, ov) ==
    /\ defs = ds
    /\ overlap = ov
    /\ bound = [w \in Wrappers |-> [kind |-> "unbound", func |-> "inc", lazy |-> FALSE,
                              mode |-> "auto"]]
    /\ clo = [w \in Wrappers |->
                [func |-> "inc", use_int_mode |-> FALSE, _mode |-> "object",
                 compiled_ptr |-> None,
                 instructions |-> << >>, constants |-> << >>, names |-> << >>,
                 globals_dict |-> "module",
                 closure_cells |-> << >>, param_count |-> 0,
                 total_locals |-> 0, nlocals |-> 0]]
    /\ jit = [w \in Wrappers |->
                [allocs |-> 0, optsets |-> 0, opt_level |-> 0,
                 compile |-> 0, compile_int |-> 0,
                 get_callable |-> 0, get_int_callable |-> 0,
                 unit |-> NoUnit, lookup |-> NoUnit]]
    /\ warned = [w \in Wrappers |-> 0]
    /\ ns = [n \in {"module", "snapshot"} |-> 0]
    /\ cells = [c \in {"c"} |-> 0]
    /\ frame = [t \in Threads |-> NoFrame]
    /\ hist = [w \in Wrappers |->
                 [calls |-> 0, nFirst |-> 0, nWrites |-> 0,
                  failed |-> FALSE, absent |-> FALSE, raisedAt |-> 0]]
    /\ ncalls = 0

\* One decorated definition, called from one thread at a time.
Init ==
    /\ InitWith([w \in {"w1"} |-> Definition(FuncIds, Modes, BOOLEAN, OptLevels)], FALSE)
    /\ subject = NoSubject

(* ---------------------------- decoration ------------------------------ *)
\* A decoration that compiles at once unless lazy is set.
_create_jit_wrapper_eager(w, f, opt_level, lazy, mode) ==
    IF _is_generator_or_coroutine(f)
       \/ _has_unsupported_opcodes(f) \in {"generator", "exception"}
    THEN /\ warned' = [warned EXCEPT ![w] = @ + 1]
         /\ bound' = [bound EXCEPT ![w] = [kind |-> "func", func |-> f, lazy |-> lazy,
                                           mode |-> mode]]
         /\ UNCHANGED << clo, jit >>
    ELSE /\ jit' = [jit EXCEPT ![w].allocs = @ + 1, ![w].optsets = @ + 1,
                               ![w].opt_level = opt_level,
                               ![w].compile = IF lazy THEN @ ELSE @ + 1]
         /\ clo' = [clo EXCEPT ![w] =
                      [func |-> f,
                       use_int_mode |-> use_int_mode_of(mode),
                       _mode |-> IF use_int_mode_of(mode) THEN "int" ELSE "object",
                       compiled_ptr |-> None,
                       instructions |-> _extract_bytecode(f),
                       constants |-> _extract_constants(f),
                       names |-> _extract_names(f),
                       globals_dict |-> _extract_globals(f),
                       closure_cells |-> _extract_closure(f),
                       param_count |-> Funcs[f].co_argcount,
                       total_locals |-> Funcs[f].co_nlocals + Funcs[f].ncellvars
                                        + Funcs[f].nfreevars,
                       nlocals |-> Funcs[f].co_nlocals]]
         /\ bound' = [bound EXCEPT ![w] = [kind |-> "wrapper", func |-> f, lazy |-> lazy,
                                           mode |-> mode]]
         /\ UNCHANGED warned

\* _create_jit_wrapper(func, opt_level, vectorize, inline, parallel, lazy, mode)
\* for the definition w.  vectorize, inline and parallel are never read.
_create_jit_wrapper(w, f, opt_level, lazy, mode) ==
    IF _is_generator_or_coroutine(f)
       \/ _has_unsupported_opcodes(f) \in {"generator", "exception"}
    THEN \* warnings.warn(...); return func
         /\ warned' = [warned EXCEPT ![w] = @ + 1]
         /\ bound' = [bound EXCEPT ![w] = [kind |-> "func", func |-> f, lazy |-> lazy,
                                           mode |-> mode]]
         /\ UNCHANGED << clo, jit >>
    ELSE /\ jit' = [jit EXCEPT ![w].allocs = @ + 1, ![w].optsets = @ + 1,
                               ![w].opt_level = opt_level]
         /\ clo' = [clo EXCEPT ![w] =
                      [func |-> f,
                       use_int_mode |-> use_int_mode_of(mode),
                       _mode |-> IF use_int_mode_of(mode) THEN "int" ELSE "object",
                       compiled_ptr |-> None,
                       instructions |-> _extract_bytecode(f),
                       constants |-> _extract_constants(f),
                       names |-> _extract_names(f),
                       globals_dict |-> _extract_globals(f),
                       closure_cells |-> _extract_closure(f),
                       param_count |-> Funcs[f].co_argcount,
                       total_locals |-> Funcs[f].co_nlocals + Funcs[f].ncellvars
                                        + Funcs[f].nfreevars,
                       nlocals |-> Funcs[f].co_nlocals]]
         /\ bound' = [bound EXCEPT ![w] = [kind |-> "wrapper", func |-> f, lazy |-> lazy,
                                           mode |-> mode]]
         /\ UNCHANGED warned

\* @jit / @jit(...) applied to a definition.  Integer mode is requested only
\* for integer-only bodies (the mode's unchecked precondition).
Decorate(w) ==
    /\ w \in DOMAIN defs
    /\ bound[w].kind = "unbound"
    /\ \E f \in defs[w].funcs, opt_level \in defs[w].opt_levels,
          lazy \in defs[w].lazy, mode \in defs[w].modes :
          /\ mode = "int" => Funcs[f].kind = "pure"
          /\ _create_jit_wrapper(w, f, opt_level, lazy, mode)
    /\ UNCHANGED << subject, defs, overlap, ns, cells, frame, hist, ncalls >>


(* ------------------------ the wrapper's calls ------------------------- *)
Idle(t) == frame[t].pc = "idle"

\* A thread may begin a call: the main thread always, any other thread
\* only in a host that calls from several threads at once.
MayCall(t) ==
    /\ Idle(t)
    /\ ncalls < MaxCalls
    /\ IF overlap THEN TRUE ELSE t = MainThread /\ \A u \in Threads : Idle(u)

\* What the undecorated function would do if called now: the reference.
Reference(f, a) ==
    LET r == CallOriginal(f, a, ns, cells)
    IN  [raised |-> r.raised, val |-> r.val, g |-> r.ns["module"]]

\* The call ends: the value or exception that reaches the caller.
Finish(fr, out, val) == [fr EXCEPT !.pc = "done", !.out = out, !.val = val]

\* return func(*args, **kwargs)
ReturnOriginal(t) ==
    LET fr == frame[t]
        r == CallOriginal(clo[fr.w].func, fr.a, ns, cells)
    IN  /\ ns' = r.ns
        /\ frame' = [frame EXCEPT ![t] =
              Finish([fr EXCEPT !.nOrig = @ + 1],
                     IF r.raised THEN "raise" ELSE "return", r.val)]

\* wrapper(*args): entry of a call of the wrapper bound to w
CallBegin(t, w, a) ==
    /\ MayCall(t)
    /\ w \in DOMAIN defs
    /\ bound[w].kind = "wrapper"
    /\ frame' = [frame EXCEPT ![t] =
          [NoFrame EXCEPT !.pc = "check", !.w = w, !.a = a,
                          !.ref = Reference(bound[w].func, a)]]
    /\ hist' = [hist EXCEPT ![w].calls = @ + 1]
    /\ ncalls' = ncalls + 1
    /\ UNCHANGED << subject, defs, overlap, bound, clo, jit, warned, ns, cells >>

\* A call through a name that decoration left bound to the original function.
CallUndecorated(t, w, a) ==
    /\ MayCall(t)
    /\ w \in DOMAIN defs
    /\ bound[w].kind = "func"
    /\ LET r == CallOriginal(bound[w].func, a, ns, cells)
       IN  /\ ns' = r.ns
           /\ frame' = [frame EXCEPT ![t] =
                 Finish([NoFrame EXCEPT !.w = w, !.a = a, !.nOrig = 1,
                                        !.ref = Reference(bound[w].func, a)],
                        IF r.raised THEN "raise" ELSE "return", r.val)]
    /\ hist' = [hist EXCEPT ![w].calls = @ + 1]
    /\ ncalls' = ncalls + 1
    /\ UNCHANGED << subject, defs, overlap, bound, clo, jit, warned, cells >>

\* A check that never finds the cache populated.
CacheEmpty_always(w) == TRUE

\* if compiled_ptr is None:                                   (line 218)
CacheEmpty(w) == clo[w].compiled_ptr = None

\* The check behind a per-wrapper lock held until the call's assignment.
CheckCache_locked(t) ==
    /\ frame[t].pc = "check"
    /\ \A u \in Threads \ {t} :
          ~(frame[u].w = frame[t].w /\ frame[u].pc \in {"compile", "get", "check2"})
    /\ LET w == frame[t].w
       IN  IF CacheEmpty(w)
           THEN /\ frame' = [frame EXCEPT ![t].pc = "compile", ![t].sawNone = TRUE]
                /\ hist' = [hist EXCEPT ![w].nFirst = @ + 1]
           ELSE /\ frame' = [frame EXCEPT ![t].pc = "invoke"]
                /\ UNCHANGED hist
    /\ UNCHANGED << subject, defs, overlap, bound, clo, jit, warned, ns, cells, ncalls >>

CheckCache(t) ==
    /\ frame[t].pc = "check"
    /\ LET w == frame[t].w
       IN  IF CacheEmpty(w)
           THEN /\ frame' = [frame EXCEPT ![t].pc = "compile", ![t].sawNone = TRUE]
                /\ hist' = [hist EXCEPT ![w].nFirst = @ + 1]
           ELSE /\ frame' = [frame EXCEPT ![t].pc = "invoke"]
                /\ UNCHANGED hist
    /\ UNCHANGED << subject, defs, overlap, bound, clo, jit, warned, ns, cells, ncalls >>

\* The arguments of jit_instance.compile_int(...) / jit_instance.compile(...)
CompileArgs(w) ==
    IF clo[w].use_int_mode
    THEN [mode |-> "int", instructions |-> clo[w].instructions,
          constants |-> clo[w].constants,
          name |-> Funcs[clo[w].func].name, param_count |-> clo[w].param_count,
          total_locals |-> clo[w].total_locals]
    ELSE [mode |-> "object", instructions |-> clo[w].instructions,
          constants |-> clo[w].constants, names |-> clo[w].names,
          globals |-> clo[w].globals_dict, builtins |-> "builtins",
          closure |-> clo[w].closure_cells,
          name |-> Funcs[clo[w].func].name, param_count |-> clo[w].param_count,
          total_locals |-> clo[w].total_locals, nlocals |-> clo[w].nlocals]

\* Compile calls recorded on one JIT instance shared by every wrapper.
LogCompile_shared(w) ==
    IF clo[w].use_int_mode
    THEN [jit EXCEPT !["w1"].compile_int = @ + 1, !["w1"].unit = CompileArgs(w)]
    ELSE [jit EXCEPT !["w1"].compile = @ + 1, !["w1"].unit = CompileArgs(w)]

\* The JIT instance records one compile call.
LogCompile(w) ==
    IF clo[w].use_int_mode
    THEN [jit EXCEPT ![w].compile_int = @ + 1, ![w].unit = CompileArgs(w)]
    ELSE [jit EXCEPT ![w].compile = @ + 1, ![w].unit = CompileArgs(w)]

\* A wrapper whose try also covers the Backend calls: the original answers.
BackendRaised_recovered(fr) == [fr EXCEPT !.pc = "fallback_compile"]

\* An exception raised by compile / compile_int / get_callable /
\* get_int_callable: the calls are outside the try (lines 218-234), so it
\* ends the wrapper call.
BackendRaised(fr) == Finish(fr, "backend_raise", 0)

\* A wrapper that goes on to the lookup whatever compile returned.
AfterCompile_unchecked(success) == "get"

\* if not success: return func(*args, **kwargs)        (lines 222, 229)
AfterCompile(success) == IF success THEN "get" ELSE "fallback_compile"

\* success = jit_instance.compile_int(...) / .compile(...); if not success:
\*                                                   (lines 221-222, 228-229)
Compile(t) ==
    /\ frame[t].pc = "compile"
    /\ LET w == frame[t].w
       IN  /\ jit' = LogCompile(w)
           /\ \/ \E success \in BOOLEAN :
                    /\ frame' = [frame EXCEPT ![t].pc = AfterCompile(success),
                                              ![t].nCompile = @ + 1,
                                              ![t].success =
                                                 IF success THEN "True" ELSE "False"]
                    /\ hist' = [hist EXCEPT ![w].failed = (@ \/ ~success)]
              \/ \* the Backend raises: the exception leaves the wrapper
                 /\ frame' = [frame EXCEPT ![t] =
                       BackendRaised([frame[t] EXCEPT !.nCompile = @ + 1])]
                 /\ hist' = [hist EXCEPT ![w].raisedAt = hist[w].calls]
    /\ UNCHANGED << subject, defs, overlap, bound, clo, warned, ns, cells, ncalls >>

\* return func(*args, **kwargs) after a failed compile     (lines 223, 230)
FallbackCompile(t) ==
    /\ frame[t].pc = "fallback_compile"
    /\ ReturnOriginal(t)
    /\ UNCHANGED << subject, defs, overlap, bound, clo, jit, warned, cells, hist, ncalls >>

\* The JIT instance records one entry-point lookup.
LogGet(w) ==
    IF clo[w].use_int_mode
    THEN [jit EXCEPT ![w].get_int_callable = @ + 1,
                     ![w].lookup = [mode |-> "int", name |-> Funcs[clo[w].func].name,
                                    param_count |-> clo[w].param_count]]
    ELSE [jit EXCEPT ![w].get_callable = @ + 1,
                     ![w].lookup = [mode |-> "object", name |-> Funcs[clo[w].func].name,
                                    param_count |-> clo[w].param_count]]

\* compiled_ptr = jit_instance.get_int_callable(...) / .get_callable(...)
\*                                                        (lines 224, 231)
GetCallable(t) ==
    /\ frame[t].pc = "get"
    /\ LET w == frame[t].w
       IN  /\ jit' = LogGet(w)
           /\ \/ \E p \in EntryPoints \cup {None} :
                    /\ clo' = [clo EXCEPT ![w].compiled_ptr = p]
                    /\ hist' = [hist EXCEPT ![w].nWrites = @ + 1,
                                  ![w].absent = (@ \/ p = None)]
                    /\ frame' = [frame EXCEPT ![t].pc = "check2", ![t].nGet = @ + 1]
              \/ \* the Backend raises: nothing is assigned
                 /\ frame' = [frame EXCEPT ![t] =
                       BackendRaised([frame[t] EXCEPT !.nGet = @ + 1])]
                 /\ hist' = [hist EXCEPT ![w].raisedAt = hist[w].calls]
                 /\ UNCHANGED clo
    /\ UNCHANGED << subject, defs, overlap, bound, warned, ns, cells, ncalls >>

\* if compiled_ptr is None:                                   (line 233)
CheckCache2(t) ==
    /\ frame[t].pc = "check2"
    /\ frame' =
          IF clo[frame[t].w].compiled_ptr = None
          THEN [frame EXCEPT ![t].pc = "fallback_absent", ![t].absent = TRUE]
          ELSE [frame EXCEPT ![t].pc = "invoke"]
    /\ UNCHANGED << subject, defs, overlap, bound, clo, jit, warned, ns, cells, hist, ncalls >>

\* return func(*args, **kwargs) when no entry point came back (line 234)
FallbackAbsent(t) ==
    /\ frame[t].pc = "fallback_absent"
    /\ ReturnOriginal(t)
    /\ UNCHANGED << subject, defs, overlap, bound, clo, jit, warned, cells, hist, ncalls >>


\* How a run of the cached entry point can end.  The generated code works
\* on the bindings it was compiled with; when it returns normally it has
\* done what the body does.  It can fault before touching anything or, for
\* a body that stores a global, after the store; the fault is an Exception,
\* or a BaseException that is not one (KeyboardInterrupt, SystemExit).
EntryOutcomes(w) ==
    IF jit[w].unit.mode = "object" /\ Funcs[clo[w].func].kind = "global"
    THEN {"ok", "fault_early", "fault_late", "base"}
    ELSE {"ok", "fault_early", "base"}

EntryRun(w, o, a) ==
    LET u == jit[w].unit
        full == IF u.mode = "object"
                THEN RunBody(Funcs[clo[w].func].kind, a, u.globals, u.closure, ns, cells)
                ELSE RunBody("pure", a, "module", << >>, ns, cells)
    IN  CASE o = "ok" ->
               [ns |-> full.ns, val |-> full.val,
                exc |-> IF full.raised THEN "Exception" ELSE "none"]
          [] o = "fault_early" -> [ns |-> ns, val |-> 0, exc |-> "Exception"]
          [] o = "fault_late" -> [ns |-> full.ns, val |-> 0, exc |-> "Exception"]
          [] OTHER -> [ns |-> ns, val |-> 0, exc |-> "BaseException"]

\* A bare except clause.
ExceptClauseCatches_all(exc) == exc # "none"

\* A handler around the entry point's own run only: the TypeError of
\* calling None is not covered.
ExceptClauseCatches_entry(exc) == exc = "Exception"

\* except Exception:                                          (line 238)
\* TypeError is an Exception; "BaseException" stands for the exceptions
\* that are not (KeyboardInterrupt, SystemExit, GeneratorExit).
ExceptClauseCatches(exc) == exc \in {"Exception", "TypeError"}

\* try: return compiled_ptr(*args, **kwargs)            (lines 236-238)
\* compiled_ptr is read again here; calling None raises TypeError, which
\* the except clause catches like any fault of the entry point.
InvokeCompiled(t) ==
    /\ frame[t].pc = "invoke"
    /\ LET fr == frame[t]
           w == fr.w
       IN  IF clo[w].compiled_ptr = None
           THEN /\ frame' = [frame EXCEPT ![t] =
                      IF ExceptClauseCatches("TypeError")
                      THEN [fr EXCEPT !.pc = "fallback_fault", !.fault = "TypeError"]
                      ELSE Finish([fr EXCEPT !.fault = "TypeError"], "wrapper_error", 0)]
                /\ UNCHANGED << ns, hist >>
           ELSE \E o \in EntryOutcomes(w) :
                  LET e == EntryRun(w, o, fr.a)
                      fe == [fr EXCEPT !.nEntry = @ + 1]
                  IN  /\ ns' = e.ns
                      /\ IF e.exc = "none"
                         THEN /\ frame' = [frame EXCEPT ![t] = Finish(fe, "return", e.val)]
                              /\ UNCHANGED hist
                         ELSE IF ExceptClauseCatches(e.exc)
                         THEN /\ frame' = [frame EXCEPT ![t] =
                                    [fe EXCEPT !.pc = "fallback_fault", !.fault = o]]
                              /\ UNCHANGED hist
                         ELSE /\ frame' = [frame EXCEPT ![t] =
                                    Finish([fe EXCEPT !.fault = o], "base_raise", 0)]
                              /\ UNCHANGED hist
    /\ UNCHANGED << subject, defs, overlap, bound, clo, jit, warned, cells, ncalls >>

\* A recovery that also drops the cached entry point.
FallbackFault_invalidating(t) ==
    /\ frame[t].pc = "fallback_fault"
    /\ ReturnOriginal(t)
    /\ clo' = [clo EXCEPT ![frame[t].w].compiled_ptr = None]
    /\ UNCHANGED << subject, defs, overlap, bound, jit, warned, cells, hist, ncalls >>

\* return func(*args, **kwargs) in the except clause         (line 239)
FallbackFault(t) ==
    /\ frame[t].pc = "fallback_fault"
    /\ ReturnOriginal(t)
    /\ UNCHANGED << subject, defs, overlap, bound, clo, jit, warned, cells, hist, ncalls >>

\* The caller has the result; the thread is free for its next call.
Return(t) ==
    /\ frame[t].pc = "done"
    /\ frame' = [frame EXCEPT ![t] = NoFrame]
    /\ UNCHANGED << subject, defs, overlap, bound, clo, jit, warned, ns, cells, hist, ncalls >>

(* -------------------------- the environment ---------------------------- *)
\* The defining scope rebinds the global g, or the enclosing function
\* rebinds the captured variable c, once a definition that reads them is
\* decorated: between calls, or at any time in a host that runs several
\* threads.
MayRebind ==
    /\ overlap \/ \A t \in Threads : Idle(t)
    /\ \E w \in DOMAIN defs : bound[w].kind # "unbound" /\ Funcs[bound[w].func].kind = "global"

RebindVals == {0, 1}

RebindGlobal ==
    /\ MayRebind
    /\ \E v \in RebindVals \ {ns["module"]} : ns' = [ns EXCEPT !["module"] = v]
    /\ UNCHANGED << subject, defs, overlap, bound, clo, jit, warned, cells, frame, hist, ncalls >>

RebindCell ==
    /\ MayRebind
    /\ \E v \in RebindVals \ {cells["c"]} : cells' = [cells EXCEPT !["c"] = v]
    /\ UNCHANGED << subject, defs, overlap, bound, clo, jit, warned, ns, frame, hist, ncalls >>

(* -------------------------- specifications ----------------------------- *)
Next ==
    \/ \E w \in Wrappers : Decorate(w)
    \/ \E t \in Threads, w \in Wrappers, a \in Args : CallBegin(t, w, a)
    \/ \E t \in Threads, w \in Wrappers, a \in Args : CallUndecorated(t, w, a)
    \/ \E t \in Threads : CheckCache(t)
    \/ \E t \in Threads : Compile(t)
    \/ \E t \in Threads : FallbackCompile(t)
    \/ \E t \in Threads : GetCallable(t)
    \/ \E t \in Threads : CheckCache2(t)
    \/ \E t \in Threads : FallbackAbsent(t)
    \/ \E t \in Threads : InvokeCompiled(t)
    \/ \E t \in Threads : FallbackFault(t)
    \/ \E t \in Threads : Return(t)
    \/ RebindGlobal
    \/ RebindCell

\* One decorated definition, calls one at a time.
Spec == Init /\ [][Next]_vars

\* One decorated integer-only definition, in either mode, called from two
\* threads whose calls overlap.
InitConc ==
    /\ InitWith([w \in {"w1"} |-> Definition({"inc"}, Modes, BOOLEAN, {3})], TRUE)
    /\ subject = NoSubject

NextConc ==
    \/ \E w \in Wrappers : Decorate(w)
    \/ \E t \in Threads, w \in Wrappers, a \in Args : CallBegin(t, w, a)
    \/ \E t \in Threads : CheckCache(t)
    \/ \E t \in Threads : Compile(t)
    \/ \E t \in Threads : FallbackCompile(t)
    \/ \E t \in Threads : GetCallable(t)
    \/ \E t \in Threads : CheckCache2(t)
    \/ \E t \in Threads : FallbackAbsent(t)
    \/ \E t \in Threads : InvokeCompiled(t)
    \/ \E t \in Threads : FallbackFault(t)
    \/ \E t \in Threads : Return(t)

SpecConc == InitConc /\ [][NextConc]_vars

\* Two decorated definitions, each an integer-only function or a
\* generator, decorated with mode "auto" or "int", calls one at a time.
InitMulti ==
    /\ InitWith([w \in {"w1", "w2"} |->
                   Definition({"inc", "gen"}, {"auto", "int"}, {FALSE}, {3})], FALSE)
    /\ subject = NoSubject

NextMulti ==
    \/ \E w \in Wrappers : Decorate(w)
    \/ \E t \in Threads, w \in Wrappers, a \in Args : CallBegin(t, w, a)
    \/ \E t \in Threads, w \in Wrappers, a \in Args : CallUndecorated(t, w, a)
    \/ \E t \in Threads : CheckCache(t)
    \/ \E t \in Threads : Compile(t)
    \/ \E t \in Threads : FallbackCompile(t)
    \/ \E t \in Threads : GetCallable(t)
    \/ \E t \in Threads : CheckCache2(t)
    \/ \E t \in Threads : FallbackAbsent(t)
    \/ \E t \in Threads : InvokeCompiled(t)
    \/ \E t \in Threads : FallbackFault(t)
    \/ \E t \in Threads : Return(t)

SpecMulti == InitMulti /\ [][NextMulti]_vars

(* ------------- analysis and extraction of any code object -------------- *)
\* Instructions a disassembled stream is made of here: a local load (its
\* argval is the variable's name, written 9), an integer constant load, a
\* cache entry, an instruction without operand, a jump (argval is the
\* target offset), a jump whose argval is not an integer, and one opcode
\* of each unsupported set.
SubjectShapes ==
    {Ins("LOAD_FAST", TRUE, 0, FALSE, 9, 0),
     Ins("LOAD_CONST", TRUE, 1, TRUE, 5, 0),
     Ins("CACHE", TRUE, 0, TRUE, 0, 0),
     Ins("RETURN_VALUE", FALSE, 0, FALSE, 0, 0),
     Ins("JUMP_FORWARD", TRUE, 2, TRUE, 8, 0),
     Ins("JUMP_BACKWARD", TRUE, 3, FALSE, 9, 0),
     Ins("YIELD_VALUE", TRUE, 1, TRUE, 1, 0),
     Ins("POP_EXCEPT", FALSE, 0, FALSE, 0, 0)}

\* Streams of at most MaxLen instructions, two bytes apart.
SubjectCodes ==
    UNION {{[i \in 1 .. n |-> [sh[i] EXCEPT !.offset = 2 * (i - 1)]] :
               sh \in [1 .. n -> SubjectShapes]} : n \in 0 .. MaxLen}

\* co_flags: CO_OPTIMIZED | CO_NEWLOCALS set or not, and any of the three
\* generator bits.
SubjectFlags ==
    {a + g + c + ag : a \in {0, 3}, g \in {0, _CO_GENERATOR},
                      c \in {0, _CO_COROUTINE}, ag \in {0, _CO_ASYNC_GENERATOR}}

\* The analysis and extraction steps of _create_jit_wrapper, for the code
\* object under analysis: the flag test; only when it is negative the scan;
\* only for a function that passed both, _extract_bytecode.
AnalyseAndExtract ==
    /\ subject.phase = "new"
    /\ subject' =
          IF HasGeneratorFlags(subject.co_flags)
          THEN [subject EXCEPT !.phase = "rejected", !.reason = "generator"]
          ELSE LET unsupported == ScanOpcodes(subject.code, 1)
                   n == ScanSteps(subject.code, 1)
               IN  IF unsupported \in {"generator", "exception"}
                   THEN [subject EXCEPT !.phase = "rejected",
                                        !.reason = unsupported, !.scanned = n]
                   ELSE [subject EXCEPT !.phase = "extracted", !.scanned = n,
                            !.instructions = ExtractFrom(subject.code, 1)]
    /\ UNCHANGED << defs, overlap, bound, clo, jit, warned, ns, cells, frame,
                    hist, ncalls >>

\* The same function decorated once more: _extract_bytecode runs again.
ExtractAgain ==
    /\ subject.phase = "extracted"
    /\ subject' = [subject EXCEPT !.phase = "extracted_twice",
                                  !.again = ExtractFrom(subject.code, 1)]
    /\ UNCHANGED << defs, overlap, bound, clo, jit, warned, ns, cells, frame,
                    hist, ncalls >>

\* Any code object of the bounded shapes is handed to the decorator.
InitAnalysis ==
    /\ InitWith([w \in {"w1"} |-> Definition({"inc"}, Modes, BOOLEAN, OptLevels)],
                FALSE)
    /\ subject \in {[NoSubject EXCEPT !.phase = "new", !.co_flags = fl, !.code = c] :
                       fl \in SubjectFlags, c \in SubjectCodes}

NextAnalysis ==
    \/ AnalyseAndExtract
    \/ ExtractAgain

SpecAnalysis == InitAnalysis /\ [][NextAnalysis]_vars

(* ------------------------------ claims --------------------------------- *)
Compiles(w) == jit[w].compile + jit[w].compile_int
Lookups(w) == jit[w].get_callable + jit[w].get_int_callable
CompilesNext(w) == jit'[w].compile + jit'[w].compile_int
LookupsNext(w) == jit'[w].get_callable + jit'[w].get_int_callable
Done(t) == frame[t].pc = "done"

\* C1: once a call of a wrapper has seen the Backend's compile return
\* failure, no later step invokes compile_object/compile_int for that
\* wrapper again, and no later step invokes an entry point: every call is
\* answered by the original callable.
C1_CompileFailureIsPermanent ==
    [][\A w \in Wrappers :
          hist[w].failed =>
             /\ CompilesNext(w) = Compiles(w)
             /\ \A t \in Threads :
                  frame[t].w = w => frame'[t].nEntry <= frame[t].nEntry]_vars

\* C2: once a call of a wrapper has had compile succeed and the lookup
\* yield no entry point, no later step invokes compile or
\* get_callable/get_int_callable for that wrapper again.
C2_MissingEntryIsPermanent ==
    [][\A w \in Wrappers :
          hist[w].absent =>
             /\ CompilesNext(w) = Compiles(w)
             /\ LookupsNext(w) = Lookups(w)]_vars

\* C3: with calls that do not overlap, once the cache holds an entry point
\* no step invokes compile_object/compile_int or
\* get_callable/get_int_callable, and the cached entry point stays the one
\* it is: the artifact is created at most once per wrapper.
C3_CompiledIdempotence ==
    [][\A w \in Wrappers :
          clo[w].compiled_ptr # None =>
             /\ CompilesNext(w) = Compiles(w)
             /\ LookupsNext(w) = Lookups(w)
             /\ clo'[w].compiled_ptr = clo[w].compiled_ptr]_vars

\* C3 witness: a call that found the cache populated has finished.
C3_Witness ==
    \E t \in Threads :
       /\ Done(t) /\ ~frame[t].sawNone /\ frame[t].nEntry = 1
       /\ clo[frame[t].w].compiled_ptr # None
       /\ hist[frame[t].w].calls >= 2

\* C4 as stated: a finished call whose cached entry point raised (whatever
\* it raised) was answered by one invocation of the original callable,
\* whose result or exception reached the caller.
C4_EveryRaiseRecovered ==
    \A t \in Threads :
       Done(t) /\ frame[t].nEntry = 1 /\ frame[t].fault # "none" =>
          frame[t].nOrig = 1 /\ frame[t].out \in {"return", "raise"}

\* C4 amended: when the cached entry point raises an exception that is an
\* instance of Exception, the step that answers the call invokes the
\* original callable once with the same arguments, its result or exception
\* reaches the caller (the undecorated function's own result when the entry
\* point had changed nothing), and the cache is left as it was; and a call
\* that found the cache populated invokes the original only after the entry
\* point was invoked first and raised.
C4_ExceptionRecoveredPerCall ==
    [][\A t \in Threads :
          /\ frame[t].pc = "fallback_fault" /\ frame'[t].pc = "done" =>
                /\ frame'[t].nOrig = 1
                /\ frame'[t].a = frame[t].a
                /\ frame'[t].out \in {"return", "raise"}
                /\ frame[t].fault = "fault_early" =>
                      /\ frame'[t].val = frame[t].ref.val
                      /\ (frame'[t].out = "raise") = frame[t].ref.raised
                /\ clo' = clo
          /\ frame[t].pc = "invoke" /\ frame'[t].out = "base_raise" =>
                frame'[t].nOrig = 0 /\ clo' = clo
          /\ /\ frame'[t].pc = "done" /\ bound[frame'[t].w].kind = "wrapper"
             /\ ~frame'[t].sawNone /\ frame'[t].nOrig = 1
             => frame'[t].nEntry = 1 /\ frame'[t].fault # "none"]_vars

\* C4 witness: in the COMPILED state a call's entry point raised an
\* Exception and the call was answered by the original; the cache still
\* holds the entry point.
C4_Witness ==
    \E t \in Threads :
       /\ Done(t) /\ ~frame[t].sawNone
       /\ frame[t].nEntry = 1 /\ frame[t].fault = "fault_early"
       /\ frame[t].nOrig = 1 /\ frame[t].out = "return"
       /\ clo[frame[t].w].compiled_ptr # None

\* C5: every wrapper call that returns a value returns the value the
\* undecorated function returns for those arguments, in both modes and
\* whatever the Backend did (an entry point that returns normally returns
\* what the body returns).
C5_ResultEquivalence ==
    \A t \in Threads :
       Done(t) /\ frame[t].out = "return" =>
          ~frame[t].ref.raised /\ frame[t].val = frame[t].ref.val

\* C6: a call whose cached entry point faulted leaves the shared globals
\* and returns (or raises) exactly as one invocation of the original would.
C6_FaultPathIsOneOriginalCall ==
    \A t \in Threads :
       Done(t) /\ frame[t].nEntry = 1 /\ frame[t].fault # "none"
               /\ frame[t].out \in {"return", "raise"} =>
          /\ ns["module"] = frame[t].ref.g
          /\ frame[t].val = frame[t].ref.val
          /\ (frame[t].out = "raise") = frame[t].ref.raised

\* C7: a function with a generator, coroutine or async-generator flag bit,
\* or with any generator/async-control or exception-handling opcode in its
\* instruction stream, is bound to the original function itself by
\* decoration, with exactly one diagnostic and no Backend allocated,
\* configured or invoked; its calls are calls of the original.
FlagBit(flags, bit) == (flags \div bit) % 2 = 1

Rejectable(f) ==
    \/ FlagBit(Funcs[f].co_flags, _CO_GENERATOR)
    \/ FlagBit(Funcs[f].co_flags, _CO_COROUTINE)
    \/ FlagBit(Funcs[f].co_flags, _CO_ASYNC_GENERATOR)
    \/ \E i \in DOMAIN Funcs[f].code :
          Funcs[f].code[i].opname \in _GENERATOR_OPCODES \cup _EXCEPTION_OPCODES

BackendUntouched(w) ==
    /\ jit[w].allocs = 0 /\ jit[w].optsets = 0
    /\ Compiles(w) = 0 /\ Lookups(w) = 0
    /\ jit[w].unit = NoUnit /\ jit[w].lookup = NoUnit

C7_StaticRejection ==
    \A w \in Wrappers :
       bound[w].kind # "unbound" /\ Rejectable(bound[w].func) =>
          /\ bound[w].kind = "func"
          /\ warned[w] = 1
          /\ BackendUntouched(w)
          /\ \A t \in Threads :
                frame[t].w = w /\ Done(t) =>
                   frame[t].nOrig = 1 /\ frame[t].nCompile = 0 /\ frame[t].nEntry = 0

\* C7 witness: a coroutine function was decorated and then called.
C7_Witness ==
    \E t \in Threads :
       /\ Done(t) /\ frame[t].nOrig = 1
       /\ bound[frame[t].w].kind = "func"
       /\ bound[frame[t].w].func = "coro"
       /\ warned[frame[t].w] = 1

LiveBinding(f, G, cl) ==
    /\ ns[G] = ns[Funcs[f].globals]
    /\ Len(cl) = Len(Funcs[f].closure)
    /\ \A i \in DOMAIN cl : cells[cl[i]] = cells[Funcs[f].closure[i]]

C9_BindingLiveness ==
    \A w \in Wrappers :
       bound[w].kind = "wrapper" =>
          /\ LiveBinding(clo[w].func, clo[w].globals_dict, clo[w].closure_cells)
          /\ jit[w].unit.mode = "object" =>
                LiveBinding(clo[w].func, jit[w].unit.globals, jit[w].unit.closure)
          /\ \A t \in Threads :
                /\ frame[t].w = w /\ Done(t) /\ frame[t].out = "return"
                /\ frame[t].nEntry = 1 /\ frame[t].nOrig = 0
                => frame[t].val = frame[t].ref.val

\* C9 witness: after decoration the cell and the global were rebound, and
\* an object-mode compiled call returned a value computed from them.
C9_Witness ==
    \E t \in Threads :
       /\ Done(t) /\ frame[t].out = "return"
       /\ frame[t].nEntry = 1 /\ frame[t].nOrig = 0
       /\ clo[frame[t].w].func = "bump" /\ frame[t].a = 1
       /\ cells["c"] = 1 /\ ns["module"] = 1 /\ frame[t].val = 2
       /\ hist[frame[t].w].calls >= 2

\* C10: nothing guards the first call: a thread that reaches the cache
\* check while another thread of the same wrapper is between its own check
\* and its assignment is not held back; it finds the cache empty and goes
\* on to invoke compile itself.
InFirstCall(t, w) ==
    frame[t].w = w /\ frame[t].pc \in {"compile", "get"}

C10_UnguardedFirstCall ==
    \A t \in Threads :
       /\ frame[t].pc = "check"
       /\ clo[frame[t].w].compiled_ptr = None
       /\ \E u \in Threads \ {t} : InFirstCall(u, frame[t].w)
       => ENABLED (CheckCache(t) /\ frame'[t].pc = "compile")

\* C10 witness: two overlapping first calls have each invoked compile and
\* each assigned the cache.
C10_Witness ==
    /\ \A t \in Threads : frame[t].pc = "check2" /\ frame[t].w = "w1"
                          /\ frame[t].nCompile = 1 /\ frame[t].nGet = 1
    /\ hist["w1"].calls = 2
    /\ Compiles("w1") = 2
    /\ hist["w1"].nWrites = 2


\* C11: each decorated definition that yields a wrapper has its own JIT
\* instance and its own cache, and a step taken for one definition (its
\* decoration, or any step of a call of it, whatever the Backend answers)
\* leaves every other definition's binding, closure variables, JIT
\* instance record and history as they were, also when both definitions
\* have the same function name and parameter count.
ActsOn(w) ==
    \/ bound'[w] # bound[w]
    \/ \E t \in Threads :
          /\ frame'[t] # frame[t]
          /\ w = IF Idle(t) THEN frame'[t].w ELSE frame[t].w

C11_WrapperIsolation ==
    [][\A w \in Wrappers :
          ActsOn(w) =>
             \A v \in Wrappers \ {w} :
                /\ clo'[v] = clo[v] /\ jit'[v] = jit[v] /\ hist'[v] = hist[v]
                /\ bound'[v] = bound[v] /\ warned'[v] = warned[v]
                /\ bound'[w].kind = "wrapper" /\ bound'[v].kind = "wrapper" =>
                      jit'[w].allocs = 1 /\ jit'[v].allocs = 1]_vars

\* C11 witness: two wrappers of the same function in the same mode; the
\* second has compiled and cached an entry point in a finished call while
\* the first, decorated earlier, has an empty cache and an unused instance.
C11_Witness ==
    /\ bound["w1"].kind = "wrapper" /\ bound["w2"].kind = "wrapper"
    /\ clo["w1"].func = clo["w2"].func
    /\ clo["w1"].param_count = clo["w2"].param_count
    /\ clo["w1"].use_int_mode = clo["w2"].use_int_mode
    /\ \E t \in Threads : Done(t) /\ frame[t].w = "w2" /\ frame[t].nEntry = 1
    /\ clo["w2"].compiled_ptr # None /\ Compiles("w2") = 1
    /\ clo["w1"].compiled_ptr = None /\ Compiles("w1") = 0 /\ Lookups("w1") = 0
    /\ hist["w1"].calls = 0

\* C12: a wrapper's mode is fixed by decoration, integer exactly when the
\* mode argument is "int" and object otherwise, and no step changes it; an
\* integer-mode wrapper has only ever invoked compile_int and
\* get_int_callable, handing over the instructions, the constants, the
\* function name, the parameter count and the local slot count and nothing
\* else; an object-mode wrapper has only ever invoked compile and
\* get_callable.
IntUnitFields == {"mode", "instructions", "constants", "name", "param_count",
                  "total_locals"}

ModeConsistent(w, mode, c, j) ==
    /\ c.use_int_mode = (mode = "int")
    /\ c._mode = IF mode = "int" THEN "int" ELSE "object"
    /\ IF mode = "int"
       THEN /\ j.compile = 0 /\ j.get_callable = 0
            /\ j.unit # NoUnit =>
                  /\ j.unit.mode = "int"
                  /\ DOMAIN j.unit = IntUnitFields
                  /\ j.unit.instructions = _extract_bytecode(c.func)
                  /\ j.unit.constants = _extract_constants(c.func)
                  /\ j.unit.name = Funcs[c.func].name
                  /\ j.unit.param_count = Funcs[c.func].co_argcount
                  /\ j.unit.total_locals = c.total_locals
       ELSE /\ j.compile_int = 0 /\ j.get_int_callable = 0
            /\ j.unit # NoUnit => j.unit.mode = "object"

C12_ModeConsistentDispatch ==
    [][\A w \in Wrappers :
          /\ bound'[w].kind = "wrapper" =>
                ModeConsistent(w, bound'[w].mode, clo'[w], jit'[w])
          /\ bound[w].kind = "wrapper" =>
                /\ bound'[w].mode = bound[w].mode
                /\ clo'[w].use_int_mode = clo[w].use_int_mode
                /\ clo'[w]._mode = clo[w]._mode]_vars

\* C12 witness: a wrapper decorated with mode "int" has compiled, looked up
\* its entry point and returned its result, in two calls.
C12_Witness ==
    \E w \in Wrappers, t \in Threads :
       /\ bound[w].kind = "wrapper" /\ bound[w].mode = "int"
       /\ jit[w].compile_int = 1 /\ jit[w].get_int_callable = 1
       /\ jit[w].unit # NoUnit /\ Len(jit[w].unit.constants) = 2
       /\ hist[w].calls = 2
       /\ frame[t].w = w /\ Done(t) /\ frame[t].nEntry = 1
       /\ frame[t].out = "return"

\* C13: once a wrapper's cache holds an entry point, every later state
\* holds that same entry point: no step empties or replaces it, also when
\* calls from several threads overlap.
C13_CacheNeverInvalidated ==
    [][\A w \in Wrappers :
          clo[w].compiled_ptr # None =>
             clo'[w].compiled_ptr = clo[w].compiled_ptr]_vars

\* C14: a code object with any of the three flag bits set is rejected as
\* generator with no instruction looked at; otherwise the stream is read
\* in order up to its first instruction that is in the generator set or in
\* the exception set, whose set is the reason (a stream holding both kinds
\* is rejected for whichever comes first); a stream with no such
\* instruction is read to its end and is eligible.
Unsupported == _GENERATOR_OPCODES \cup _EXCEPTION_OPCODES

FirstUnsupported(code) ==
    {i \in DOMAIN code :
        /\ code[i].opname \in Unsupported
        /\ \A k \in 1 .. i - 1 : code[k].opname \notin Unsupported}

Analysed == subject.phase \in {"rejected", "extracted", "extracted_twice"}

C14_ReasonByOrder ==
    Analysed =>
       IF \/ FlagBit(subject.co_flags, _CO_GENERATOR)
          \/ FlagBit(subject.co_flags, _CO_COROUTINE)
          \/ FlagBit(subject.co_flags, _CO_ASYNC_GENERATOR)
       THEN /\ subject.phase = "rejected" /\ subject.reason = "generator"
            /\ subject.scanned = 0
       ELSE IF FirstUnsupported(subject.code) = {}
       THEN /\ subject.phase # "rejected" /\ subject.reason = "none"
            /\ subject.scanned = Len(subject.code)
       ELSE \A i \in FirstUnsupported(subject.code) :
               /\ subject.phase = "rejected"
               /\ subject.scanned = i
               /\ subject.reason =
                     IF subject.code[i].opname \in _GENERATOR_OPCODES
                     THEN "generator" ELSE "exception"

\* C14 witness: no flag bit, an exception opcode ahead of a generator
\* opcode: rejected as exception at the second instruction.
C14_Witness ==
    /\ subject.phase = "rejected" /\ subject.reason = "exception"
    /\ subject.co_flags = 3 /\ Len(subject.code) = 3
    /\ subject.code[1].opname = "LOAD_FAST"
    /\ subject.code[2].opname = "POP_EXCEPT"
    /\ subject.code[3].opname = "YIELD_VALUE"
    /\ subject.scanned = 2

\* C15: the extracted sequence is the disassembled stream without its
\* cache entries: the k-th emitted instruction is the k-th instruction
\* that is not a cache entry, with its opcode and offset, its arg (0 when
\* it has none) and its argval when that is an integer (0 for any other
\* kind of operand); a second extraction of the same function yields the
\* same sequence.
Kept(code) == {i \in DOMAIN code : code[i].opname # "CACHE"}

KeptAt(code, k) ==
    CHOOSE i \in Kept(code) : Cardinality({j \in Kept(code) : j < i}) = k - 1

C15_ExtractionResult ==
    subject.phase \in {"extracted", "extracted_twice"} =>
       /\ Len(subject.instructions) = Cardinality(Kept(subject.code))
       /\ \A k \in DOMAIN subject.instructions :
             LET ins == subject.code[KeptAt(subject.code, k)]
                 out == subject.instructions[k]
             IN  /\ out.opcode = ins.opname
                 /\ out.offset = ins.offset
                 /\ out.arg = IF ins.hasarg THEN ins.arg ELSE 0
                 /\ out.argval = IF ins.argint THEN ins.argval ELSE 0
       /\ subject.phase = "extracted_twice" => subject.again = subject.instructions

\* C15 witness: a stream of a local load, a cache entry and a jump was
\* extracted twice: two instructions, the jump keeping offset 4 and its
\* target, the load's name operand emitted as 0.
C15_Witness ==
    /\ subject.phase = "extracted_twice"
    /\ Len(subject.code) = 3
    /\ subject.code[1].opname = "LOAD_FAST"
    /\ subject.code[2].opname = "CACHE"
    /\ subject.code[3].opname = "JUMP_FORWARD"
    /\ Len(subject.instructions) = 2
    /\ subject.instructions[1].argval = 0
    /\ subject.instructions[2].offset = 4 /\ subject.instructions[2].argval = 8

\* C16: a step that invokes get_callable / get_int_callable belongs to a
\* call that found the cache empty at its check and whose own compile, of
\* the same mode, returned success just before; the lookup's function name
\* and parameter count are those handed to that compile; the cache is empty
\* when the lookup is made, and a call whose compile failed or that found
\* the cache populated finishes without a lookup.
C16_LookupFollowsCompileSuccess ==
    [][\A w \in Wrappers :
          /\ LookupsNext(w) # Lookups(w) =>
                /\ LookupsNext(w) = Lookups(w) + 1
                /\ clo[w].compiled_ptr = None
                /\ jit'[w].lookup.mode = jit[w].unit.mode
                /\ jit'[w].lookup.name = jit[w].unit.name
                /\ jit'[w].lookup.param_count = jit[w].unit.param_count
                /\ \E t \in Threads :
                      /\ frame[t].w = w /\ frame'[t] # frame[t]
                      /\ frame[t].sawNone /\ frame[t].success = "True"
                      /\ frame[t].nCompile = 1
                      /\ frame[t].nGet = 0 /\ frame'[t].nGet = 1
          /\ \A t \in Threads :
                /\ frame'[t].pc = "done" /\ bound[frame'[t].w].kind = "wrapper"
                /\ frame'[t].success = "False" \/ ~frame'[t].sawNone
                => frame'[t].nGet = 0]_vars

\* C16 witness: a call found the cache empty, compiled with success, looked
\* up the entry point once and returned its result.
C16_Witness ==
    \E t \in Threads :
       /\ Done(t) /\ frame[t].sawNone /\ frame[t].success = "True"
       /\ frame[t].nCompile = 1 /\ frame[t].nGet = 1 /\ frame[t].nEntry = 1
       /\ frame[t].out = "return"
       /\ Lookups(frame[t].w) = 1
       /\ jit[frame[t].w].lookup.name = "bump"

\* C17 as stated: a call of a wrapper invokes compile at most once, the
\* cached entry point at most once and the original at most once, and a
\* finished call has invoked the original exactly once if and only if its
\* compile returned failure, its lookup left the cache empty, or its entry
\* point raised.
WrapperCall(t) == ~Idle(t) /\ bound[frame[t].w].kind = "wrapper"

AtMostOnce(t) ==
    frame[t].nCompile <= 1 /\ frame[t].nGet <= 1 /\ frame[t].nEntry <= 1
    /\ frame[t].nOrig <= 1

C17_BoundedWork ==
    \A t \in Threads :
       WrapperCall(t) =>
          /\ AtMostOnce(t)
          /\ Done(t) =>
                (frame[t].nOrig = 1 <=>
                    \/ frame[t].success = "False"
                    \/ frame[t].absent
                    \/ frame[t].fault # "none")

\* C17 amended: the same bounds; a finished call has invoked the original
\* exactly once if and only if its compile returned failure, its lookup
\* left the cache empty, or its entry point raised an exception that is an
\* instance of Exception; after any other exception of the entry point the
\* original is not invoked.
C17_BoundedWorkExceptionOnly ==
    \A t \in Threads :
       WrapperCall(t) =>
          /\ AtMostOnce(t)
          /\ Done(t) =>
                /\ frame[t].nOrig = 1 <=>
                      \/ frame[t].success = "False"
                      \/ frame[t].absent
                      \/ frame[t].fault \notin {"none", "base"}
                /\ frame[t].success = "False" => frame[t].nGet = 0 /\ frame[t].nEntry = 0
                /\ frame[t].absent => frame[t].nEntry = 0
                /\ frame[t].fault # "none" => frame[t].nEntry = 1

\* C17 witness: a first call compiled, looked up and invoked the entry
\* point, which raised an Exception, and then invoked the original: each
\* once.
C17_Witness ==
    \E t \in Threads :
       /\ Done(t) /\ bound[frame[t].w].kind = "wrapper"
       /\ frame[t].nCompile = 1 /\ frame[t].nGet = 1
       /\ frame[t].nEntry = 1 /\ frame[t].nOrig = 1
       /\ frame[t].fault = "fault_late"

\* C18 as stated: under every interleaving of overlapping calls and every
\* Backend outcome, each finished call has returned the entry point's
\* result or the original's result for its own arguments.
ReturnedOwnResult(t) ==
    /\ frame[t].out = "return" /\ ~frame[t].ref.raised
    /\ frame[t].val = frame[t].ref.val
    /\ \/ frame[t].nEntry = 1 /\ frame[t].nOrig = 0
       \/ frame[t].nOrig = 1

C18_EveryCallReturnsAResult ==
    \A t \in Threads : WrapperCall(t) /\ Done(t) => ReturnedOwnResult(t)

\* C18 amended: under every interleaving of overlapping calls, a finished
\* call that was not ended by an exception raised by the Backend's compile
\* or lookup, or by an exception of the entry point that is not an
\* Exception, has returned the entry point's result or the original's
\* result for its own arguments; a call that finds the cache emptied by
\* another thread when it invokes the entry point has invoked the original
\* once and returned its result, and no call ends with an error of the
\* wrapper itself.
C18_RaceTolerance ==
    \A t \in Threads :
       WrapperCall(t) /\ Done(t) =>
          /\ frame[t].out # "wrapper_error"
          /\ frame[t].out \notin {"backend_raise", "base_raise"} => ReturnedOwnResult(t)
          /\ frame[t].out = "backend_raise" =>
                frame[t].nEntry = 0 /\ frame[t].nOrig = 0 /\ frame[t].fault = "none"
          /\ frame[t].out = "base_raise" =>
                frame[t].nEntry = 1 /\ frame[t].nOrig = 0 /\ frame[t].fault = "base"
          /\ frame[t].fault = "TypeError" =>
                /\ frame[t].nEntry = 0 /\ frame[t].nOrig = 1
                /\ ReturnedOwnResult(t)

\* C18 witness: a call found the cache populated at its check; another
\* thread, still in its first call, then stored None; the call's attempt
\* to invoke what the cache held failed and the original answered it.
C18_Witness ==
    \E t \in Threads :
       /\ Done(t) /\ ~frame[t].sawNone /\ frame[t].fault = "TypeError"
       /\ frame[t].nEntry = 0 /\ frame[t].nOrig = 1
       /\ frame[t].out = "return" /\ frame[t].val = frame[t].a + 1
       /\ clo[frame[t].w].compiled_ptr = None

\* C19: when the Backend raises in compile or in the lookup, that step ends
\* the call with the Backend's exception, the original not invoked and
\* the cache empty as before; the cache is still empty when the call is
\* handed back, and the next call of the wrapper finds it empty at its
\* check and invokes compile again.
RaisedInLastCall(w) ==
    hist[w].raisedAt > 0 /\ hist[w].calls = hist[w].raisedAt + 1

C19_BackendRaiseNotRecovered ==
    [][\A t \in Threads :
          LET w == frame[t].w
          IN  /\ hist'[w].raisedAt # hist[w].raisedAt /\ frame'[t] # frame[t] =>
                    /\ frame[t].pc \in {"compile", "get"}
                    /\ frame'[t].pc = "done" /\ frame'[t].out = "backend_raise"
                    /\ frame'[t].nOrig = 0 /\ frame'[t].nEntry = 0
                    /\ clo' = clo /\ clo'[w].compiled_ptr = None
              /\ Done(t) /\ frame[t].out = "backend_raise" /\ frame'[t] # frame[t] =>
                    clo'[w].compiled_ptr = None /\ ns' = ns
              /\ RaisedInLastCall(w) /\ frame'[t] # frame[t] =>
                    /\ frame[t].pc = "check" =>
                          clo[w].compiled_ptr = None /\ frame'[t].pc = "compile"
                    /\ frame[t].pc = "compile" =>
                          CompilesNext(w) = Compiles(w) + 1]_vars

\* C19 witness: the Backend raised in the lookup of the first call; the
\* second call compiled again, cached an entry point and returned its
\* result.
C19_Witness ==
    \E t \in Threads :
       LET w == frame[t].w
       IN  /\ hist[w].raisedAt = 1 /\ hist[w].calls = 2
           /\ Done(t) /\ frame[t].sawNone /\ frame[t].nCompile = 1
           /\ frame[t].nEntry = 1 /\ frame[t].out = "return"
           /\ Compiles(w) = 2 /\ Lookups(w) = 2
           /\ clo[w].compiled_ptr # None

====
